---- MODULE Spec2Model ----
(***************************************************************************)
(* Model of the receive side of intercom: SocketReceive (intercom/rx.py)   *)
(* and the start/stop facade Intercom (intercom/ic.py).                    *)
(*                                                                         *)
(* Threads of the program:                                                 *)
(*   - the accept thread running SocketReceive.stream_to_buffer;           *)
(*   - the thread Intercom._t, whose target is receive.callback_reader;    *)
(*   - a second caller of receive.callback_reader (rx.py calls it from the *)
(*     main thread in its __main__ block);                                 *)
(*   - the controlling thread calling Intercom.start, Intercom.stop and    *)
(*     SocketReceive.clear_buffer.                                         *)
(* Every step between two accesses of shared state is one action.          *)
(***************************************************************************)
EXTENDS Integers, Sequences, FiniteSets, TLC

\* ---------------------------------------------------------------- bounds
\* queue_len parameter of SocketReceive.__init__ (default 10000 in the code)
queue_len == 2

\* number of connections the peers open during a run
MaxConn == 3

\* ------------------------------------------------------------- constants
\* size of the length prefix read by recv_msg
PrefixLen == 4

None == -1

\* random.randint(55000, 60000), both ends included
PortLo == 55000
PortHi == 60000

\* the port rx.py's __main__ block asks for
MainPort == 61113

\* ports that may be free in a run; every other port is taken
CandidatePorts == {PortLo, PortHi, PortHi + 1, MainPort}

\* number of explicit close_session() calls made by the application
MaxCloseCalls == 2

Conns == 1..MaxConn

\* the two threads that execute callback_reader
Threads == {"t", "u"}

\* ---------------------------------------------------------------- frames
\* What a peer puts on the wire before closing its end: avail bytes in
\* total, of which the first four (when present) declare the length L; body
\* is the JSON text those L bytes spell when they all arrive.
F_list == [avail |-> 7, L |-> 3, body |-> "list"]
F_emptylist == [avail |-> 6, L |-> 2, body |-> "emptylist"]
F_object == [avail |-> 6, L |-> 2, body |-> "object"]
F_notjson == [avail |-> 6, L |-> 2, body |-> "notjson"]
F_short == [avail |-> 5, L |-> 3, body |-> "list"]
F_zero == [avail |-> 4, L |-> 0, body |-> "nothing"]
F_noprefix == [avail |-> 2, L |-> 0, body |-> "nothing"]

Frames == {F_list, F_emptylist, F_object, F_notjson, F_short, F_zero, F_noprefix}

NoFrame == [avail |-> 0, L |-> 0, body |-> "nothing"]

\* a decoded message: the connection it came from and the number of
\* elements of the decoded list
NoMsg == [id |-> 0, elems |-> 0]

VARIABLES
    acceptPc,           \* position of the accept thread in stream_to_buffer
    conn,               \* number of connections accepted so far
    frame,              \* what the peer of the current connection sends
    result,             \* recv_msg's return value: payload length or None
    wire,               \* wire[i]: what the receiver did on connection i's socket
    outcome,            \* outcome[i]: how handle() ended for connection i
    buffer,             \* the deque created in __init__, held by the accept thread
    selfBuffer,         \* the deque self._buffer refers to after clear_buffer
    shared,             \* self._buffer is still the deque created in __init__
    callback_running,   \* SocketReceive.callback_running
    pc,                 \* pc[th]: position of thread th in callback_reader
    msg,                \* msg[th]: the local msg of callback_reader
    delivered,          \* ids passed to call_back, in call order
    popped,             \* ids removed by popleft
    evicted,            \* ids discarded by append on a full deque
    mainPc,             \* position of the controlling thread in Intercom.start
    tStarted,           \* Intercom._t has been started
    extraCalls,         \* callback_reader was called directly, or start again
    interval,           \* "none"; "flagged" once stop() cleared the flag
                        \* with no loop running; "stopped" once stop()
                        \* cleared it under a running loop; "restarted"
                        \* once a later callback_reader call found the
                        \* flag cleared and went on to loop
    stoppedMsgs,        \* messages appended during the stopped interval
                        \* (a record kept by RestartSpec only)
    life,               \* the SocketReceive object: "new" (in __init__,
                        \* before bind), "bound", "live" (constructed),
                        \* "failed" (__init__ raised), "deleted"
    portArg,            \* the port argument of __init__, or None
    free,               \* the ports no other socket is bound to
    port,               \* self.port, or None
    stream,             \* self._stream: its state and the port it is bound to
    opens,              \* number of on_open calls
    closes,             \* number of on_close calls
    lateAccept          \* accept returned a connection after _stream.close()

vars == <<acceptPc, conn, frame, result, wire, outcome, buffer,
          selfBuffer, shared, callback_running, pc, msg, delivered, popped,
          evicted, mainPc, tStarted, extraCalls, interval, stoppedMsgs,
          life, portArg, free, port, stream, opens, closes, lateAccept>>

acceptVars == <<acceptPc, conn, frame, result, wire, outcome>>
bufVars == <<buffer, selfBuffer, shared>>
dispVars == <<pc, msg, delivered, popped>>
mainVars == <<mainPc, tStarted>>
histVars == <<extraCalls, interval>>
lifeVars == <<life, portArg, free, port, stream, opens, closes, lateAccept>>

\* --------------------------------------------------------- pure functions
Range(s) == {s[i] : i \in 1..Len(s)}

Ids(s) == {s[i].id : i \in 1..Len(s)}

\* recvall(rx, n) on a stream that still carries `remaining` bytes before
\* the peer's close: n bytes, or None when recv returns b'' first
recvall(remaining, n) ==
    IF remaining >= n THEN n ELSE None

\* recv_msg(rx): the payload length read, or None
recv_msg(f) ==
    LET raw_msglen == recvall(f.avail, PrefixLen)
    IN IF raw_msglen = None
       THEN None
       ELSE recvall(f.avail - PrefixLen, f.L)

\* the values random.randint(55000, 60000) can return
RandomPorts == PortLo..PortHi

\* faulty variant: bind succeeds on a port that is in use
bind_socket_any(p, freePorts) == p

\* _bind_socket(host, port) without raise_catch: the port when
\* self._stream.bind succeeds, None when it raises OSError
bind_socket(p, freePorts) ==
    IF p \in freePorts THEN p ELSE None

\* truth value of recv_msg's result in `if result:` (None and b'' are false)
Truthy(r) == r # None /\ r > 0

\* container(res): the decoded list, or the exception raised
container(i, f) ==
    CASE f.body = "list" -> [ok |-> TRUE, exc |-> "none", sm |-> [id |-> i, elems |-> 1]]
      [] f.body = "emptylist" -> [ok |-> TRUE, exc |-> "none", sm |-> [id |-> i, elems |-> 0]]
      [] f.body = "object" -> [ok |-> FALSE, exc |-> "AttributeError", sm |-> NoMsg]
      [] OTHER -> [ok |-> FALSE, exc |-> "ValueError", sm |-> NoMsg]

\* faulty variant: append on a deque built without maxlen
DequeAppend_unbounded(q, m) == Append(q, m)

\* deque(maxlen=queue_len).append: a full deque discards its oldest entry
DequeAppend(q, m) ==
    IF Len(q) >= queue_len THEN Append(Tail(q), m) ELSE Append(q, m)

\* the ids an append discards
Discarded(q) ==
    IF Len(q) >= queue_len /\ Len(q) > 0 THEN {Head(q).id} ELSE {}

\* the deque self._buffer refers to
SelfBuf == IF shared THEN buffer ELSE selfBuffer

\* truth value of a popped message in `if not msg` (an empty list is false)
MsgTruthy(m) == m.elems > 0

\* ------------------------------------------------------------------ Init
\* the state every run starts from, apart from the listener's construction
InitRest ==
    /\ conn = 0
    /\ frame = NoFrame
    /\ result = None
    /\ wire = [i \in Conns |-> <<>>]
    /\ outcome = [i \in Conns |-> "none"]
    /\ buffer = <<>>
    /\ selfBuffer = <<>>
    /\ shared = TRUE
    /\ callback_running = FALSE
    /\ pc = [th \in Threads |-> "idle"]
    /\ msg = [th \in Threads |-> NoMsg]
    /\ delivered = <<>>
    /\ popped = {}
    /\ evicted = {}
    /\ mainPc = "idle"
    /\ tStarted = FALSE
    /\ extraCalls = FALSE
    /\ interval = "none"
    /\ stoppedMsgs = {}
    /\ lateAccept = FALSE

\* SocketReceive(port=61113) has been constructed: the port was free, the
\* socket listens, the accept thread runs, on_open has been called
Init ==
    /\ InitRest
    /\ acceptPc = "accept"
    /\ life = "live"
    /\ portArg = MainPort
    /\ free = {MainPort}
    /\ port = MainPort
    /\ stream = [st |-> "listening", addr |-> MainPort]
    /\ opens = 1
    /\ closes = 0

\* SocketReceive(port) is being constructed: fields are set, the socket is
\* created and not yet bound (rx.py lines 60-68)
InitLife ==
    /\ InitRest
    /\ acceptPc = "unstarted"
    /\ life = "new"
    /\ portArg \in {None, MainPort}
    /\ free \in SUBSET CandidatePorts
    /\ port = None
    /\ stream = [st |-> "unbound", addr |-> None]
    /\ opens = 0
    /\ closes = 0

\* ------------------------------------------------- accept thread (rx.py)
\* where the accept thread goes after handle(): back into stream.accept(),
\* which raises OSError at once when the socket object is already closed
AfterHandle == IF stream.st = "closed" THEN "exited" ELSE "accept"

\* faulty variant: the next connection is accepted while the previous one
\* is still waiting to be handled
Accept_concurrent ==
    /\ acceptPc \in {"accept", "handle"}
    /\ conn < MaxConn
    /\ conn' = conn + 1
    /\ acceptPc' = "handle"
    /\ lateAccept' = (lateAccept \/ stream.st = "closed")
    /\ UNCHANGED <<frame, result, wire, outcome>>
    /\ UNCHANGED <<bufVars, callback_running, dispVars, evicted, mainVars,
                   histVars, stoppedMsgs>>
    /\ UNCHANGED <<life, portArg, free, port, stream, opens, closes>>

\* sock = stream.accept()[0]; a peer connects.  A thread already blocked in
\* accept() when the application closes the socket still holds the open
\* listener: shutdown(SHUT_WR) and close() do not wake it, and a peer that
\* connects afterwards is accepted.
Accept ==
    /\ acceptPc = "accept"
    /\ conn < MaxConn
    /\ conn' = conn + 1
    /\ acceptPc' = "handle"
    /\ lateAccept' = (lateAccept \/ stream.st = "closed")
    /\ UNCHANGED <<frame, result, wire, outcome>>
    /\ UNCHANGED <<bufVars, callback_running, dispVars, evicted, mainVars,
                   histVars, stoppedMsgs>>
    /\ UNCHANGED <<life, portArg, free, port, stream, opens, closes>>

\* except OSError: print("Shutting down SocketReader"); break
AcceptRaises ==
    /\ acceptPc = "accept"
    /\ stream.st = "closed"
    /\ acceptPc' = "exited"
    /\ UNCHANGED <<conn, frame, result, wire, outcome>>
    /\ UNCHANGED <<bufVars, callback_running, dispVars, evicted, mainVars,
                   histVars, stoppedMsgs, lifeVars>>

\* faulty variant: acknowledgment and close skipped when the read failed
RecvAckClose_ackOnSuccess ==
    /\ acceptPc = "handle"
    /\ \E f \in Frames :
          /\ frame' = f
          /\ result' = recv_msg(f)
          /\ wire' = [wire EXCEPT ![conn] =
                          IF recv_msg(f) = None THEN @ ELSE @ \o <<"ACK!", "close">>]
    /\ acceptPc' = "branch"
    /\ UNCHANGED <<conn, outcome>>
    /\ UNCHANGED <<bufVars, callback_running, dispVars, evicted, mainVars,
                   histVars, stoppedMsgs>>
    /\ UNCHANGED lifeVars

\* handle(): result = recv_msg(skt); skt.send(b'ACK!'); skt.close()
\* (three calls on the connection's socket, which no other thread holds);
\* the peer sends frame f and closes its end
RecvAckClose ==
    /\ acceptPc = "handle"
    /\ \E f \in Frames :
          /\ frame' = f
          /\ result' = recv_msg(f)
    /\ wire' = [wire EXCEPT ![conn] = @ \o <<"ACK!", "close">>]
    /\ acceptPc' = "branch"
    /\ UNCHANGED <<conn, outcome>>
    /\ UNCHANGED <<bufVars, callback_running, dispVars, evicted, mainVars,
                   histVars, stoppedMsgs>>
    /\ UNCHANGED lifeVars

\* if result: callback.append(container(result)), the list case
EnqueueStep ==
    /\ acceptPc = "branch"
    /\ Truthy(result)
    /\ container(conn, frame).ok
    /\ buffer' = DequeAppend(buffer, container(conn, frame).sm)
    /\ evicted' = evicted \cup Discarded(buffer)
    /\ outcome' = [outcome EXCEPT ![conn] = "pushed"]
    /\ acceptPc' = AfterHandle
    /\ frame' = NoFrame
    /\ result' = None
    /\ UNCHANGED <<conn, wire>>
    /\ UNCHANGED <<selfBuffer, shared, callback_running, dispVars, mainVars,
                   histVars>>
    /\ UNCHANGED lifeVars

Enqueue == EnqueueStep /\ UNCHANGED stoppedMsgs

\* the same step, keeping a record of the messages appended while dispatch
\* is stopped
EnqueueStopped ==
    /\ EnqueueStep
    /\ stoppedMsgs' = IF interval = "stopped"
                      THEN stoppedMsgs \cup {container(conn, frame).sm}
                      ELSE stoppedMsgs

\* if result: container(result) raises; nothing catches it in the thread
RaiseContainer ==
    /\ acceptPc = "branch"
    /\ Truthy(result)
    /\ ~container(conn, frame).ok
    /\ outcome' = [outcome EXCEPT ![conn] = container(conn, frame).exc]
    /\ acceptPc' = "raised"
    /\ frame' = NoFrame
    /\ result' = None
    /\ UNCHANGED <<conn, wire>>
    /\ UNCHANGED <<bufVars, callback_running, dispVars, evicted, mainVars,
                   histVars, stoppedMsgs>>
    /\ UNCHANGED lifeVars

\* else: raise EOFError; nothing catches it in the thread
RaiseEOF ==
    /\ acceptPc = "branch"
    /\ ~Truthy(result)
    /\ outcome' = [outcome EXCEPT ![conn] = "EOFError"]
    /\ acceptPc' = "raised"
    /\ frame' = NoFrame
    /\ result' = None
    /\ UNCHANGED <<conn, wire>>
    /\ UNCHANGED <<bufVars, callback_running, dispVars, evicted, mainVars,
                   histVars, stoppedMsgs>>
    /\ UNCHANGED lifeVars

\* ------------------------------------- callback_reader (rx.py), thread th
\* where a thread is once callback_reader returns: Intercom._t ends, the
\* other caller may call again
Returned(th) == IF th = "t" THEN "done" ELSE "idle"

\* a thread other than Intercom._t calls receive.callback_reader(call_back)
CallReader ==
    /\ pc["u"] = "idle"
    /\ pc' = [pc EXCEPT !["u"] = "check"]
    /\ extraCalls' = TRUE
    /\ UNCHANGED <<acceptVars, bufVars, callback_running, msg, delivered,
                   popped, evicted, mainVars, interval, stoppedMsgs>>
    /\ UNCHANGED lifeVars

\* if not self.callback_running:
CheckRunning(th) ==
    /\ pc[th] = "check"
    /\ pc' = [pc EXCEPT ![th] = IF callback_running THEN Returned(th) ELSE "set"]
    /\ interval' = IF interval = "stopped" /\ ~callback_running
                   THEN "restarted"
                   ELSE interval
    /\ UNCHANGED <<acceptVars, bufVars, callback_running, msg, delivered,
                   popped, evicted, mainVars, extraCalls, stoppedMsgs>>
    /\ UNCHANGED lifeVars

\* self.callback_running = True
SetRunning(th) ==
    /\ pc[th] = "set"
    /\ callback_running' = TRUE
    /\ pc' = [pc EXCEPT ![th] = "while"]
    /\ UNCHANGED <<acceptVars, bufVars, msg, delivered, popped, evicted,
                   mainVars, histVars, stoppedMsgs>>
    /\ UNCHANGED lifeVars

\* while self.callback_running:
WhileTest(th) ==
    /\ pc[th] = "while"
    /\ pc' = [pc EXCEPT ![th] = IF callback_running THEN "len" ELSE "reset"]
    /\ UNCHANGED <<acceptVars, bufVars, callback_running, msg, delivered,
                   popped, evicted, mainVars, histVars, stoppedMsgs>>
    /\ UNCHANGED lifeVars

\* faulty variant: BufferError only when the length exceeds queue_len
LenCheck_strict(th) ==
    /\ pc[th] = "len"
    /\ pc' = [pc EXCEPT ![th] = IF Len(SelfBuf) > queue_len THEN "raised" ELSE "pop"]
    /\ UNCHANGED <<acceptVars, bufVars, callback_running, msg, delivered,
                   popped, evicted, mainVars, histVars, stoppedMsgs>>
    /\ UNCHANGED lifeVars

\* __read_buffer: if len(self._buffer) >= self.queue_len: raise BufferError
\* (the exception leaves callback_reader and ends the thread's loop)
LenCheck(th) ==
    /\ pc[th] = "len"
    /\ pc' = [pc EXCEPT ![th] = IF Len(SelfBuf) >= queue_len THEN "raised" ELSE "pop"]
    /\ UNCHANGED <<acceptVars, bufVars, callback_running, msg, delivered,
                   popped, evicted, mainVars, histVars, stoppedMsgs>>
    /\ UNCHANGED lifeVars

\* __read_buffer: self._buffer.popleft() raises IndexError, sleep returns
\* None; back in callback_reader: if not msg: continue
PopEmpty(th) ==
    /\ pc[th] = "pop"
    /\ SelfBuf = <<>>
    /\ pc' = [pc EXCEPT ![th] = "while"]
    /\ UNCHANGED <<acceptVars, bufVars, callback_running, msg, delivered,
                   popped, evicted, mainVars, histVars, stoppedMsgs>>
    /\ UNCHANGED lifeVars

\* __read_buffer: return self._buffer.popleft(); back in callback_reader:
\* if not msg: continue
PopLeft(th) ==
    /\ pc[th] = "pop"
    /\ SelfBuf # <<>>
    /\ LET m == Head(SelfBuf)
       IN /\ popped' = popped \cup {m.id}
          /\ msg' = [msg EXCEPT ![th] = IF MsgTruthy(m) THEN m ELSE NoMsg]
          /\ pc' = [pc EXCEPT ![th] = IF MsgTruthy(m) THEN "call" ELSE "while"]
    /\ IF shared
       THEN buffer' = Tail(buffer) /\ UNCHANGED selfBuffer
       ELSE selfBuffer' = Tail(selfBuffer) /\ UNCHANGED buffer
    /\ UNCHANGED <<acceptVars, shared, callback_running, delivered, evicted,
                   mainVars, histVars, stoppedMsgs>>
    /\ UNCHANGED lifeVars

\* call_back(msg)
CallBack(th) ==
    /\ pc[th] = "call"
    /\ delivered' = Append(delivered, msg[th].id)
    /\ msg' = [msg EXCEPT ![th] = NoMsg]
    /\ pc' = [pc EXCEPT ![th] = "while"]
    /\ UNCHANGED <<acceptVars, bufVars, callback_running, popped, evicted,
                   mainVars, histVars, stoppedMsgs>>
    /\ UNCHANGED lifeVars

\* self.callback_running = False, after the while loop
ResetRunning(th) ==
    /\ pc[th] = "reset"
    /\ callback_running' = FALSE
    /\ pc' = [pc EXCEPT ![th] = Returned(th)]
    /\ UNCHANGED <<acceptVars, bufVars, msg, delivered, popped, evicted,
                   mainVars, histVars, stoppedMsgs>>
    /\ UNCHANGED lifeVars

\* ------------------------------------------------ SocketReceive.clear_buffer
\* self._buffer = deque(maxlen=self.queue_len): self._buffer now names a new
\* deque; the accept thread keeps the one it was given as an argument
clear_buffer ==
    /\ shared' = FALSE
    /\ selfBuffer' = <<>>
    /\ UNCHANGED <<acceptVars, buffer, callback_running, dispVars, evicted,
                   mainVars, histVars, stoppedMsgs>>
    /\ UNCHANGED lifeVars

\* ------------------------------------------------------- Intercom (ic.py)
\* start(): if self.receive.callback_running: return
StartCheck ==
    /\ mainPc = "idle"
    /\ mainPc' = IF callback_running THEN "idle" ELSE "spawn"
    /\ extraCalls' = (extraCalls \/ tStarted)
    /\ UNCHANGED <<acceptVars, bufVars, callback_running, dispVars, evicted,
                   tStarted, interval, stoppedMsgs>>
    /\ UNCHANGED lifeVars

\* start(): self._t.start(); a Thread started twice raises RuntimeError,
\* which ends start() before the flag is set and reaches its caller
StartSpawn ==
    /\ mainPc = "spawn"
    /\ IF tStarted
       THEN /\ mainPc' = "idle"
            /\ UNCHANGED <<tStarted, pc>>
       ELSE /\ tStarted' = TRUE
            /\ pc' = [pc EXCEPT !["t"] = "check"]
            /\ mainPc' = "setflag"
    /\ UNCHANGED <<acceptVars, bufVars, callback_running, msg, delivered,
                   popped, evicted, histVars, stoppedMsgs>>
    /\ UNCHANGED lifeVars

\* start(): self.receive.callback_running = True
StartSet ==
    /\ mainPc = "setflag"
    /\ callback_running' = TRUE
    /\ mainPc' = "idle"
    /\ UNCHANGED <<acceptVars, bufVars, dispVars, evicted, tStarted,
                   histVars, stoppedMsgs>>
    /\ UNCHANGED lifeVars

\* stop(): if not self.receive.callback_running: return
\*         self.receive.callback_running = False
Stop ==
    /\ mainPc = "idle"
    /\ callback_running
    /\ callback_running' = FALSE
    /\ interval' = IF interval \in {"none", "flagged"}
                   THEN IF \E th \in Threads : pc[th] \in {"while", "len", "pop", "call"}
                        THEN "stopped"
                        ELSE "flagged"
                   ELSE interval
    /\ UNCHANGED <<acceptVars, bufVars, dispVars, evicted, mainVars,
                   extraCalls, stoppedMsgs>>
    /\ UNCHANGED lifeVars

\* ------------------------------------- SocketReceive.__init__ and teardown
\* else: self._bind_socket(host, port, raise_catch=True); a failed bind
\* raises OSError("Port: {} in use") out of __init__
BindExplicit ==
    /\ life = "new"
    /\ portArg # None
    /\ IF bind_socket(portArg, free) # None
       THEN /\ stream' = [st |-> "bound", addr |-> portArg]
            /\ port' = portArg
            /\ life' = "bound"
       ELSE /\ life' = "failed"
            /\ UNCHANGED <<stream, port>>
    /\ UNCHANGED <<acceptVars, bufVars, callback_running, dispVars, evicted,
                   mainVars, histVars, stoppedMsgs>>
    /\ UNCHANGED <<portArg, free, opens, closes, lateAccept>>

\* while port is None: _port = random.randint(55000, 60000)
\*                      port = self._bind_socket(host, _port)
\* (one turn of the loop; a failed bind leaves port None)
BindRandom ==
    /\ life = "new"
    /\ portArg = None
    /\ \E p \in RandomPorts :
          IF bind_socket(p, free) # None
          THEN /\ stream' = [st |-> "bound", addr |-> p]
               /\ port' = bind_socket(p, free)
               /\ life' = "bound"
          ELSE UNCHANGED <<stream, port, life>>
    /\ UNCHANGED <<acceptVars, bufVars, callback_running, dispVars, evicted,
                   mainVars, histVars, stoppedMsgs>>
    /\ UNCHANGED <<portArg, free, opens, closes, lateAccept>>

\* self._stream.listen(5); self.t.start(); self.on_open()
ListenStart ==
    /\ life = "bound"
    /\ stream' = [stream EXCEPT !.st = "listening"]
    /\ acceptPc' = "accept"
    /\ opens' = opens + 1
    /\ life' = "live"
    /\ UNCHANGED <<conn, frame, result, wire, outcome>>
    /\ UNCHANGED <<bufVars, callback_running, dispVars, evicted, mainVars,
                   histVars, stoppedMsgs>>
    /\ UNCHANGED <<portArg, free, port, closes, lateAccept>>

\* close_session(), called by the application: shutdown(SHUT_WR) (an
\* OSError is passed over), sleep, self._stream.close(), self.on_close()
close_session ==
    /\ life = "live"
    /\ closes < MaxCloseCalls
    /\ stream' = [stream EXCEPT !.st = "closed"]
    /\ closes' = closes + 1
    /\ UNCHANGED <<acceptVars, bufVars, callback_running, dispVars, evicted,
                   mainVars, histVars, stoppedMsgs>>
    /\ UNCHANGED <<life, portArg, free, port, opens, lateAccept>>

\* __del__: self.close_session(); self.clear_buffer().  It runs when the
\* last reference goes, also for an object whose __init__ raised.
Del ==
    /\ life \in {"live", "failed"}
    /\ stream' = [stream EXCEPT !.st = "closed"]
    /\ closes' = closes + 1
    /\ shared' = FALSE
    /\ selfBuffer' = <<>>
    /\ life' = "deleted"
    /\ UNCHANGED <<acceptVars, buffer, callback_running, dispVars, evicted,
                   mainVars, histVars, stoppedMsgs>>
    /\ UNCHANGED <<portArg, free, port, opens, lateAccept>>

\* --------------------------------------------------------- specification
AcceptThread ==
    \/ Accept
    \/ RecvAckClose
    \/ Enqueue
    \/ RaiseContainer
    \/ RaiseEOF

Reader(th) ==
    \/ CheckRunning(th)
    \/ SetRunning(th)
    \/ WhileTest(th)
    \/ LenCheck(th)
    \/ PopEmpty(th)
    \/ PopLeft(th)
    \/ CallBack(th)
    \/ ResetRunning(th)

Next ==
    \/ AcceptThread
    \/ \E th \in Threads : Reader(th)
    \/ CallReader
    \/ clear_buffer
    \/ StartCheck
    \/ StartSpawn
    \/ StartSet
    \/ Stop

Spec == Init /\ [][Next]_vars

\* the same program, with the record of the stopped interval kept
NextRestart ==
    \/ Accept
    \/ RecvAckClose
    \/ EnqueueStopped
    \/ RaiseContainer
    \/ RaiseEOF
    \/ \E th \in Threads : Reader(th)
    \/ CallReader
    \/ clear_buffer
    \/ StartCheck
    \/ StartSpawn
    \/ StartSet
    \/ Stop

RestartSpec == Init /\ [][NextRestart]_vars

\* construction, the accept thread and teardown of one SocketReceive
NextLife ==
    \/ BindExplicit
    \/ BindRandom
    \/ ListenStart
    \/ AcceptThread
    \/ AcceptRaises
    \/ close_session
    \/ Del

LifeSpec == InitLife /\ [][NextLife]_vars

\* The threads the interpreter schedules keep running: the accept thread
\* inside handle(), each thread inside callback_reader, and the controlling
\* thread inside start().  Peers connecting and calls made by the
\* application (start, stop, callback_reader, clear_buffer) are not forced.
Fairness ==
    /\ WF_vars(RecvAckClose \/ Enqueue \/ RaiseContainer \/ RaiseEOF)
    /\ \A th \in Threads : WF_vars(Reader(th))
    /\ WF_vars(StartSpawn \/ StartSet)

FairSpec == Spec /\ Fairness

\* ------------------------------------------------------------ vocabulary
\* ids of the messages held in callback_reader's local msg, about to be
\* passed to call_back
Held == {msg[th].id : th \in {x \in Threads : pc[x] = "call"}}

NoDuplicates(s) == \A i, j \in 1..Len(s) : i # j => s[i] # s[j]

Increasing(s) == \A i, j \in 1..Len(s) : i < j => s[i] < s[j]

\* thread th is inside the while loop of callback_reader, or entering it
LoopExecuting(th) == pc[th] \in {"set", "while", "len", "pop", "call"}

\* Intercom.start() ran to its last line
StartReturned == tStarted /\ mainPc # "setflag"

\* Intercom.stop() cleared the flag at least once
StopCalled == interval # "none"

\* ---------------------------------------------------------------- claims

\* C1: messages are passed to the callback in the order in which their
\* connections completed (connection ids count completions, so the ids
\* the callback sees are increasing).
C1_FifoDelivery == Increasing(delivered)

\* C2: a connection that ends in EOFError (short frame) or AttributeError
\* (JSON that is not a list) leaves the accept loop running.
C2_AcceptLoopSurvivesErrors ==
    \A i \in Conns :
        outcome[i] \in {"EOFError", "AttributeError"} => acceptPc # "raised"

\* C3: once dispatch has been stopped and started again, every non-empty
\* message appended during the stopped interval is still queued, or in the
\* hands of a dispatch loop, or delivered; none is delivered twice and
\* they are delivered in arrival order (clear_buffer not having been called).
C3_RestartDeliversStoppedMsgs ==
    (interval = "restarted" /\ shared) =>
        /\ \A m \in stoppedMsgs :
               m.elems > 0 =>
                   \/ m.id \in Ids(buffer)
                   \/ m.id \in Held
                   \/ m.id \in Range(delivered)
        /\ NoDuplicates(delivered)
        /\ Increasing(delivered)

\* C4: appending to the buffer never discards an entry that has not been
\* delivered, and no entry is delivered twice.
C4_OverflowLosesNothing ==
    /\ evicted = {}
    /\ NoDuplicates(delivered)

\* C5: every entry the dispatch loop pops is passed to the callback (it is
\* in the loop's hands on its way to call_back, or has been delivered),
\* and only once.
C5_PoppedIsDelivered ==
    /\ \A m \in popped : m \in Held \/ m \in Range(delivered)
    /\ NoDuplicates(delivered)

\* C6: the deque the accept thread appends to and the deque self._buffer
\* names never hold more than queue_len entries.
C6_BufferBounded ==
    /\ Len(buffer) <= queue_len
    /\ Len(selfBuffer) <= queue_len

\* C6 witness: an append hit a full deque, clear_buffer has been called, and
\* the deque is at capacity.
C6_Witness ==
    /\ evicted # {}
    /\ ~shared
    /\ Len(buffer) = queue_len

\* C7: after start() has returned on a dispatcher that was not running,
\* with no stop since and no BufferError, once the spawned thread is past
\* its first line a dispatch loop is executing.
C7_StartBeginsLoop ==
    (/\ StartReturned
     /\ ~StopCalled
     /\ pc["t"] # "check"
     /\ \A th \in Threads : pc[th] # "raised")
        => \E th \in Threads : LoopExecuting(th)

\* C8: once stop() has cleared the flag after start() returned, and neither
\* start nor callback_reader is called again, the loop of Intercom._t
\* eventually exits.
C8_StopEndsLoop ==
    [](( StartReturned /\ StopCalled /\ ~extraCalls)
          => <>(pc["t"] \in {"done", "raised"} \/ extraCalls))

\* C9: on every connection the receiver sends ACK! once and then closes,
\* whatever recv_msg returned, and handle() appends or raises only after.
C9_AckCloseThenPush ==
    \A i \in Conns :
        /\ wire[i] \in {<<>>, <<"ACK!", "close">>}
        /\ (outcome[i] # "none" \/ (i = conn /\ acceptPc = "branch"))
               => wire[i] = <<"ACK!", "close">>
        /\ i \in Ids(buffer) \cup popped \cup evicted
               => wire[i] = <<"ACK!", "close">>

\* C9 witness: one connection was acknowledged, closed and its message
\* appended; another was acknowledged and closed although its frame failed.
C9_Witness ==
    \E i, j \in Conns :
        /\ outcome[i] = "pushed"
        /\ outcome[j] \in {"EOFError", "AttributeError", "ValueError"}
        /\ wire[i] = <<"ACK!", "close">>
        /\ wire[j] = <<"ACK!", "close">>

\* C10: a frame whose JSON is not a list is not appended, and its failure
\* is handed to an error channel instead of leaving stream_to_buffer as an
\* uncaught exception.
C10_MalformedReported ==
    \A i \in Conns :
        outcome[i] = "AttributeError"
            => /\ i \notin Ids(buffer) \cup popped \cup evicted
               /\ acceptPc # "raised"

\* the accepted connections the receiver has not closed yet
OpenConns == {i \in Conns : i <= conn /\ wire[i] # <<"ACK!", "close">>}

\* C11: when a connection is accepted every earlier one has been read,
\* acknowledged, closed and has ended in an append or an exception; at most
\* one accepted connection is open; a connection is read, acknowledged and
\* closed at most once; nothing happens on a connection not yet accepted.
C11_SerialAcceptLoop ==
    /\ \A i \in Conns :
           /\ i < conn => wire[i] = <<"ACK!", "close">> /\ outcome[i] # "none"
           /\ i > conn => wire[i] = <<>> /\ outcome[i] = "none"
           /\ Len(wire[i]) <= 2
    /\ Cardinality(OpenConns) <= 1

\* C11 witness: a second connection is open, accepted after the first was
\* closed and its message appended.
C11_Witness ==
    /\ conn >= 2
    /\ acceptPc = "handle"
    /\ outcome[1] = "pushed"
    /\ OpenConns = {conn}

\* C12: once close_session() has shut down and closed the listening socket
\* the accept loop accepts no further connection: its accept() fails with
\* OSError and the loop exits.
C12_TeardownEndsAccepting == ~lateAccept

\* C13: with an explicit port that is in use the constructor never gets
\* past the bind (the socket is never bound or listening, the accept thread
\* is never started, on_open is not called); with no port the constructor
\* never fails, and once it is past the bind loop the socket is bound to
\* a free port, self.port is that port and it lies in 55000..60000.
C13_BindOutcome ==
    /\ (portArg # None /\ portArg \notin free)
           => /\ life \in {"new", "failed", "deleted"}
              /\ stream.st \in {"unbound", "closed"}
              /\ stream.addr = None
              /\ acceptPc = "unstarted"
              /\ opens = 0
    /\ portArg = None => life # "failed"
    /\ (portArg = None /\ life \in {"bound", "live", "deleted"})
           => /\ port = stream.addr
              /\ port \in free
              /\ PortLo <= port /\ port <= PortHi

\* C13 witness: the constructor was given a port that is in use and has
\* raised OSError out of _bind_socket.
C13_Witness ==
    /\ portArg # None
    /\ portArg \notin free
    /\ life = "failed"
    /\ acceptPc = "unstarted"

\* C14: on_open is called at most once and only after a successful bind;
\* on_close is called at most once and only when on_open has been called.
C14_HooksOnceEach ==
    /\ opens <= 1
    /\ opens = 1 => stream.addr # None
    /\ closes <= 1
    /\ closes >= 1 => opens = 1

\* C15: the deque the accept thread appends to is always the deque that
\* self._buffer names and __read_buffer reads, also after clear_buffer().
C15_OneSharedBuffer == shared

\* thread th has set the flag and is inside callback_reader's while loop
InsideLoop(th) == pc[th] \in {"while", "len", "pop", "call"}

\* C16: at most one thread is inside callback_reader's while loop at any
\* time.
C16_SingleDispatchLoop ==
    Cardinality({th \in Threads : InsideLoop(th)}) <= 1

\* no thread is in callback_reader and start() is not under way
DispatchQuiet ==
    /\ \A th \in Threads : pc[th] \in {"idle", "done", "raised"}
    /\ mainPc = "idle"

\* C17: when a dispatch loop has ended with BufferError and no thread is in
\* callback_reader nor being started, callback_running is False.
C17_FlagTracksLoop ==
    (DispatchQuiet /\ \E th \in Threads : pc[th] = "raised")
        => ~callback_running

\* C18: a __read_buffer call that finds queue_len entries at its length
\* test raises BufferError and leaves both deques, and the record of what
\* was popped, as they were; one that finds fewer goes on to popleft; and
\* popleft on a non-empty deque removes exactly its oldest entry, which is
\* the value handed back to callback_reader.
C18_ReadAtCapacity ==
    [][\A th \in Threads :
          /\ (pc[th] = "len" /\ pc'[th] # "len")
                 => IF Len(SelfBuf) >= queue_len
                    THEN /\ pc'[th] = "raised"
                         /\ buffer' = buffer
                         /\ selfBuffer' = selfBuffer
                         /\ popped' = popped
                         /\ msg' = msg
                    ELSE pc'[th] = "pop"
          /\ (pc[th] = "pop" /\ pc'[th] # "pop" /\ SelfBuf # <<>>)
                 => /\ SelfBuf' = Tail(SelfBuf)
                    /\ popped' = popped \cup {Head(SelfBuf).id}
                    /\ MsgTruthy(Head(SelfBuf)) => msg'[th] = Head(SelfBuf)
      ]_vars

\* C18 witness: one read has popped an entry and a later read has raised
\* BufferError on a deque holding queue_len entries, which are still there.
C18_Witness ==
    /\ popped # {}
    /\ \E th \in Threads : pc[th] = "raised"
    /\ Len(SelfBuf) = queue_len

\* start() is about to call self._t.start() on a thread that was started
\* before: the call raises RuntimeError
StartRaises == mainPc = "spawn" /\ tStarted

\* C19: after start(), a stop() that found the dispatch loop running, and
\* the exit of Intercom._t's loop, a further start() does not end in an
\* error.
C19_StartStopCycle ==
    (interval = "stopped" /\ pc["t"] = "done" /\ pc["u"] = "idle")
        => ~StartRaises

\* C20: handle() takes the else branch that raises EOFError exactly when
\* the peer closed before the 4-byte prefix and the L bytes it declares had
\* all arrived; otherwise recv_msg returned the L payload bytes.
C20_ExactFrameRead ==
    acceptPc = "branch" =>
        /\ ~Truthy(result) <=> frame.avail < PrefixLen + frame.L
        /\ frame.avail >= PrefixLen + frame.L => result = frame.L

====
